---- MODULE Spec2Model ----
(***************************************************************************)
(* type-safe-router-gen: discovery -> route entries -> emitted callables.  *)
(* Strings are sequences of one-character strings, so that the regular     *)
(* expressions of the source are modelled by what they match.              *)
(***************************************************************************)
EXTENDS Integers, Sequences, FiniteSets, TLC

\* config:           the effective configuration of the run
\* fsFiles:          the files below the input directory, in walk order
\* pc:               the position of the process
\* allRouteFiles:    the walker's result
\* discoveredRoutes: the route entries built so far
\* output:           the Routes object of the generated file
\* lastCall:         the last call a consumer made of an emitted callable
\* disk:             whether the input directory exists, the directories that
\*                   cannot be opened, whether the output file can be written
\* proc:             what the process has logged, and its exit status
\* cli:              the command, the flags given, the config file found
\* watcher:          the events waiting for their handler, and the runs
VARIABLES config, fsFiles, pc, allRouteFiles, discoveredRoutes,
          output, lastCall, disk, proc, cli, watcher

vars == <<config, fsFiles, pc, allRouteFiles, discoveredRoutes,
          output, lastCall, disk, proc, cli, watcher>>

----------------------------------------------------------------------------
(* Strings *)

S(str) == [i \in 1..Len(str) |-> SubSeq(str, i, i)]

Lower == {"a","b","c","d","e","f","g","h","i","j","k","l","m",
          "n","o","p","q","r","s","t","u","v","w","x","y","z"}
Upper == {"A","B","C","D","E","F","G","H","I","J","K","L","M",
          "N","O","P","Q","R","S","T","U","V","W","X","Y","Z"}
Digit == {"0","1","2","3","4","5","6","7","8","9"}

\* [a-zA-Z0-9_]
NameChars == Lower \cup Upper \cup Digit \cup {"_"}

StartsAt(s, i, lit) ==
  /\ i >= 1
  /\ i + Len(lit) - 1 <= Len(s)
  /\ SubSeq(s, i, i + Len(lit) - 1) = lit

startsWith(s, lit) == StartsAt(s, 1, lit)

endsWith(s, lit) == StartsAt(s, Len(s) - Len(lit) + 1, lit)

\* smallest j >= i with s[j] = c, 0 when there is none
IndexFrom(s, c, i) ==
  LET js == {j \in i..Len(s) : s[j] = c}
  IN IF js = {} THEN 0 ELSE CHOOSE j \in js : \A k \in js : j <= k

\* last index of the maximal run of characters of cs that starts at i (i-1 when empty)
SpanIn(s, i, cs) ==
  LET stop == {j \in i..Len(s) : s[j] \notin cs}
  IN IF stop = {} THEN Len(s) ELSE (CHOOSE j \in stop : \A k \in stop : j <= k) - 1

\* last index of the maximal run of characters outside cs that starts at i
SpanNot(s, i, cs) ==
  LET stop == {j \in i..Len(s) : s[j] \in cs}
  IN IF stop = {} THEN Len(s) ELSE (CHOOSE j \in stop : \A k \in stop : j <= k) - 1

\* smallest i with lit at i, 0 when lit does not occur
indexOf(s, lit) ==
  LET is == {i \in 1..Len(s) : StartsAt(s, i, lit)}
  IN IF is = {} THEN 0 ELSE CHOOSE i \in is : \A k \in is : i <= k

RECURSIVE join(_, _)
join(list, sep) ==
  IF list = <<>> THEN <<>>
  ELSE IF Len(list) = 1 THEN list[1]
  ELSE list[1] \o sep \o join(Tail(list), sep)

RECURSIVE split(_, _)
split(s, c) ==
  LET j == IndexFrom(s, c, 1)
  IN IF j = 0 THEN <<s>>
     ELSE <<SubSeq(s, 1, j - 1)>> \o split(SubSeq(s, j + 1, Len(s)), c)

----------------------------------------------------------------------------
(* Convention rewriter *)

Frameworks == {"nextjs", "nextjs-app", "remix", "sveltekit", "astro"}

Extensions == {S(".tsx"), S(".ts"), S(".jsx"), S(".js")}

\* routePath.replace(/\.(tsx|ts|jsx|js)$/, '')
stripExtension(s) ==
  IF \E e \in Extensions : endsWith(s, e)
  THEN LET e == CHOOSE e \in Extensions : endsWith(s, e)
       IN SubSeq(s, 1, Len(s) - Len(e))
  ELSE s

\* replace(/\[\[\.\.\.([^[\]]+)\]\]/g, ':$1*')
RECURSIVE replaceOptionalCatchAll(_, _)
replaceOptionalCatchAll(s, i) ==
  IF i > Len(s) THEN <<>>
  ELSE LET e == SpanNot(s, i + 5, {"[", "]"})
       IN IF /\ StartsAt(s, i, S("[[..."))
             /\ e >= i + 5
             /\ StartsAt(s, e + 1, S("]]"))
          THEN <<":">> \o SubSeq(s, i + 5, e) \o <<"*">>
                 \o replaceOptionalCatchAll(s, e + 3)
          ELSE <<s[i]>> \o replaceOptionalCatchAll(s, i + 1)

\* replace(/\[([^\]]+)\]/g, ':$1')
RECURSIVE replaceBracket(_, _)
replaceBracket(s, i) ==
  IF i > Len(s) THEN <<>>
  ELSE LET j == IndexFrom(s, "]", i + 1)
       IN IF s[i] = "[" /\ j >= i + 2
          THEN <<":">> \o SubSeq(s, i + 1, j - 1) \o replaceBracket(s, j + 1)
          ELSE <<s[i]>> \o replaceBracket(s, i + 1)

\* replace(/\[\.\.\.([^\]]+)\]/g, ':$1*')
RECURSIVE replaceRest(_, _)
replaceRest(s, i) ==
  IF i > Len(s) THEN <<>>
  ELSE LET j == IndexFrom(s, "]", i + 4)
       IN IF StartsAt(s, i, S("[...")) /\ j >= i + 5
          THEN <<":">> \o SubSeq(s, i + 4, j - 1) \o <<"*">>
                 \o replaceRest(s, j + 1)
          ELSE <<s[i]>> \o replaceRest(s, i + 1)

\* replace(/\(([^)]+)\)/g, '')
RECURSIVE removeRouteGroups(_, _)
removeRouteGroups(s, i) ==
  IF i > Len(s) THEN <<>>
  ELSE LET j == IndexFrom(s, ")", i + 1)
       IN IF s[i] = "(" /\ j >= i + 2
          THEN removeRouteGroups(s, j + 1)
          ELSE <<s[i]>> \o removeRouteGroups(s, i + 1)

\* replace(/\$([^.]+)/g, ':$1')
RECURSIVE replaceDollar(_, _)
replaceDollar(s, i) ==
  IF i > Len(s) THEN <<>>
  ELSE LET e == SpanNot(s, i + 1, {"."})
       IN IF s[i] = "$" /\ e >= i + 1
          THEN <<":">> \o SubSeq(s, i + 1, e) \o replaceDollar(s, e + 1)
          ELSE <<s[i]>> \o replaceDollar(s, i + 1)

AppRouterRoles == {S("/page"), S("/layout"), S("/loading"), S("/error"),
                   S("/not-found"), S("/template")}

\* replace(/\/(page|layout|loading|error|not-found|template)$/, '')
stripRoleSuffix(s) ==
  IF \E r \in AppRouterRoles : endsWith(s, r)
  THEN LET r == CHOOSE r \in AppRouterRoles : endsWith(s, r)
       IN SubSeq(s, 1, Len(s) - Len(r))
  ELSE s

\* the switch on the framework
frameworkPatterns(s, fw) ==
  CASE fw = "nextjs" ->
         replaceBracket(replaceOptionalCatchAll(s, 1), 1)
    [] fw = "nextjs-app" ->
         stripRoleSuffix(
           replaceBracket(
             replaceOptionalCatchAll(removeRouteGroups(s, 1), 1), 1))
    [] fw = "remix" -> replaceDollar(s, 1)
    [] fw = "sveltekit" -> replaceRest(replaceBracket(s, 1), 1)
    [] fw = "astro" -> replaceRest(replaceBracket(s, 1), 1)
    [] OTHER -> s

\* a variant that collapses the whole-path 'index' only
collapseIndexWholeOnly(s) ==
  IF s = S("index") THEN S("/") ELSE s

\* the index collapse
collapseIndex(s) ==
  IF s = S("index") THEN S("/")
  ELSE IF endsWith(s, S("/index")) THEN SubSeq(s, 1, Len(s) - 6)
  ELSE s

\* a variant that puts a slash before every path
leadingSlashAlways(s) == S("/") \o s

\* the leading slash and the empty path
leadingSlash(s) ==
  LET t == IF ~startsWith(s, S("/")) /\ s # <<>> THEN S("/") \o s ELSE s
  IN IF t = <<>> THEN S("/") ELSE t

\* relPath is relative(basePagesDir, filePath)
getRoutePathFromFilePath(relPath, fw) ==
  leadingSlash(collapseIndex(frameworkPatterns(stripExtension(relPath), fw)))

----------------------------------------------------------------------------
(* Parameter extractor *)

\* routePath.match(/:([a-zA-Z0-9_]+)\*?/g): the matched substrings, left to right
RECURSIVE dynamicSegments(_, _)
dynamicSegments(s, i) ==
  IF i > Len(s) THEN <<>>
  ELSE LET e == SpanIn(s, i + 1, NameChars)
           last == IF e + 1 <= Len(s) /\ s[e + 1] = "*" THEN e + 1 ELSE e
       IN IF s[i] = ":" /\ e >= i + 1
          THEN <<SubSeq(s, i, last)>> \o dynamicSegments(s, last + 1)
          ELSE dynamicSegments(s, i + 1)

\* segment.substring(1).replace(/\*$/, '')
paramName(segment) ==
  LET t == SubSeq(segment, 2, Len(segment))
  IN IF endsWith(t, S("*")) THEN SubSeq(t, 1, Len(t) - 1) ELSE t

isCatchAll(segment) == endsWith(segment, S("*"))

\* a variant that never marks a param optional
paramOfNeverOptional(segment) ==
  [name |-> paramName(segment),
   type |-> IF isCatchAll(segment) THEN S("string[]") ELSE S("string"),
   optional |-> FALSE,
   catchAll |-> isCatchAll(segment)]

paramOf(segment) ==
  [name |-> paramName(segment),
   type |-> IF isCatchAll(segment) THEN S("string[]") ELSE S("string"),
   optional |-> isCatchAll(segment),
   catchAll |-> isCatchAll(segment)]

extractParams(routePath) ==
  LET segs == dynamicSegments(routePath, 1)
  IN [k \in 1..Len(segs) |-> paramOf(segs[k])]

----------------------------------------------------------------------------
(* Query contract extractor *)

\* \s
WhiteSpace == {" ", "\n", "\t", "\r"}

InterfaceKeyword == S("export interface QueryParams")

\* content.match(/export interface QueryParams\s*{(.*?)}/s): the captured
\* group of the leftmost match, or NoMatch
NoMatch == <<"<null>">>

interfaceMatch(content) ==
  LET ok(i) ==
        LET b == SpanIn(content, i + Len(InterfaceKeyword), WhiteSpace) + 1
        IN /\ StartsAt(content, i, InterfaceKeyword)
           /\ b <= Len(content)
           /\ content[b] = "{"
           /\ IndexFrom(content, "}", b + 1) # 0
      is == {i \in 1..Len(content) : ok(i)}
  IN IF is = {} THEN NoMatch
     ELSE LET i == CHOOSE i \in is : \A k \in is : i <= k
              b == SpanIn(content, i + Len(InterfaceKeyword), WhiteSpace) + 1
          IN SubSeq(content, b + 1, IndexFrom(content, "}", b + 1) - 1)

trim(s) ==
  LET keep == {i \in 1..Len(s) : s[i] \notin WhiteSpace}
  IN IF keep = {} THEN <<>>
     ELSE SubSeq(s, CHOOSE i \in keep : \A k \in keep : i <= k,
                    CHOOSE i \in keep : \A k \in keep : i >= k)

RECURSIVE filterNonEmpty(_)
filterNonEmpty(list) ==
  IF list = <<>> THEN <<>>
  ELSE IF Len(list[1]) > 0 THEN <<list[1]>> \o filterNonEmpty(Tail(list))
  ELSE filterNonEmpty(Tail(list))

\* [\w\[\]]
TypeChars == NameChars \cup {"[", "]"}

\* prop.match(/^(\w+)\s*(\?)?:\s*([\w\[\]]+)/): the field, or << >> when
\* the property does not match
propertyMatch(prop) ==
  LET n == SpanIn(prop, 1, NameChars)
      a == SpanIn(prop, n + 1, WhiteSpace) + 1
      opt == a <= Len(prop) /\ prop[a] = "?"
      c == IF opt THEN a + 1 ELSE a
      t == SpanIn(prop, c + 1, WhiteSpace) + 1
      e == SpanIn(prop, t, TypeChars)
  IN IF n >= 1 /\ c <= Len(prop) /\ prop[c] = ":" /\ e >= t
     THEN <<[name |-> SubSeq(prop, 1, n),
             type |-> SubSeq(prop, t, e),
             optional |-> opt]>>
     ELSE <<>>

RECURSIVE propertiesToParams(_)
propertiesToParams(props) ==
  IF props = <<>> THEN <<>>
  ELSE propertyMatch(props[1]) \o propertiesToParams(Tail(props))

\* content is readFileSync(filePath, 'utf-8')
extractQueryParams(content) ==
  LET m == interfaceMatch(content)
  IN IF m # NoMatch /\ m # <<>>
     THEN LET pieces == split(m, ";")
              properties ==
                filterNonEmpty([k \in 1..Len(pieces) |-> trim(pieces[k])])
          IN propertiesToParams(properties)
     ELSE <<>>

----------------------------------------------------------------------------
(* JavaScript values handed to an emitted callable *)

Undefined == [t |-> "undefined", v |-> <<>>]
Str(s) == [t |-> "string", v |-> s]
Num(n) == [t |-> "number", v |-> n]
Bool(b) == [t |-> "boolean", v |-> b]
\* an array of strings
Arr(list) == [t |-> "array", v |-> list]
\* an object: a function from property names to values
Obj(f) == [t |-> "object", v |-> f]

\* obj.name
Get(obj, name) ==
  IF name \in DOMAIN obj.v THEN obj.v[name] ELSE Undefined

\* ToBoolean
Truthy(x) ==
  CASE x.t = "undefined" -> FALSE
    [] x.t = "string" -> x.v # <<>>
    [] x.t = "number" -> x.v # 0
    [] x.t = "boolean" -> x.v
    [] OTHER -> TRUE

DigitOf(d) == <<"0","1","2","3","4","5","6","7","8","9">>[d + 1]

RECURSIVE NumberToString(_)
NumberToString(n) ==
  IF n < 10 THEN <<DigitOf(n)>>
  ELSE NumberToString(n \div 10) \o <<DigitOf(n % 10)>>

\* ToString(x) of the language
JsToString(x) ==
  CASE x.t = "undefined" -> S("undefined")
    [] x.t = "string" -> x.v
    [] x.t = "number" -> NumberToString(x.v)
    [] x.t = "boolean" -> IF x.v THEN S("true") ELSE S("false")
    [] x.t = "array" -> join(x.v, S(","))
    [] OTHER -> S("[object Object]")

\* the characters encodeURIComponent leaves alone
Unreserved == Lower \cup Upper \cup Digit
                \cup {"-", "_", ".", "!", "~", "*", "'", "(", ")"}

\* the percent escapes of the other characters of the model's alphabet
Escapes ==
  (" " :> S("%20")) @@ ("&" :> S("%26")) @@ ("=" :> S("%3D")) @@
  ("?" :> S("%3F")) @@ ("/" :> S("%2F")) @@ ("#" :> S("%23")) @@
  ("%" :> S("%25")) @@ ("+" :> S("%2B")) @@ ("," :> S("%2C")) @@
  (":" :> S("%3A")) @@ ("[" :> S("%5B")) @@ ("]" :> S("%5D")) @@
  ("$" :> S("%24")) @@ ("@" :> S("%40")) @@ (";" :> S("%3B"))

RECURSIVE encodeURIComponent(_)
encodeURIComponent(s) ==
  IF s = <<>> THEN <<>>
  ELSE (IF s[1] \in Unreserved THEN <<s[1]>> ELSE Escapes[s[1]])
         \o encodeURIComponent(Tail(s))

----------------------------------------------------------------------------
(* Code emitter: the text of a callable, kept as the pieces of its template *)
(* literal: a literal character, or one of the three ${...} expressions the *)
(* emitter writes.                                                          *)

Lit(c) == [k |-> "lit", name |-> <<c>>, parts |-> <<>>]
\* ${params.NAME}
ScalarExpr(name) == [k |-> "scalar", name |-> name, parts |-> <<>>]
\* ${params?.NAME ? params.NAME.join('/') : ''}
CatchAllExpr(name) == [k |-> "catchAll", name |-> name, parts |-> <<>>]
\* ${[PARTS].join('').replace(/^&/, '?')}
QueryExpr(parts) == [k |-> "query", name |-> <<>>, parts |-> parts]

Template(s) == [i \in 1..Len(s) |-> Lit(s[i])]

\* the characters String.prototype.replace searches: none of the emitted
\* expressions contains ':' followed by a name character, so an expression
\* never matches a marker
Searchable(tpl) ==
  [i \in 1..Len(tpl) |-> IF tpl[i].k = "lit" THEN tpl[i].name[1] ELSE "${}"]

\* pathConstruction.replace(lit, expr): the first occurrence only
replaceFirst(tpl, lit, expr) ==
  LET i == indexOf(Searchable(tpl), lit)
  IN IF i = 0 THEN tpl
     ELSE SubSeq(tpl, 1, i - 1) \o <<expr>>
            \o SubSeq(tpl, i + Len(lit), Len(tpl))

\* route.params.forEach(p => pathConstruction = pathConstruction.replace(..))
RECURSIVE substituteParams(_, _)
substituteParams(tpl, params) ==
  IF params = <<>> THEN tpl
  ELSE LET p == params[1]
       IN substituteParams(
            IF p.catchAll
            THEN replaceFirst(tpl, <<":">> \o p.name \o <<"*">>,
                              CatchAllExpr(p.name))
            ELSE replaceFirst(tpl, <<":">> \o p.name, ScalarExpr(p.name)),
            Tail(params))

\* a variant that treats every field as a scalar
queryPartScalarOnly(q) == [name |-> q.name, list |-> FALSE]

\* one entry of queryParts
queryPart(q) == [name |-> q.name, list |-> endsWith(q.type, S("[]"))]

\* 'params' / 'query' and its '?', as written into functionArgs
ArgOf(which, specs) ==
  [arg |-> which, optional |-> \A k \in 1..Len(specs) : specs[k].optional]

\* the callable generateRoutesFile writes for one route
emitCallable(route) ==
  LET hasParams == Len(route.params) > 0
      hasQuery == Len(route.queryParams) > 0
      path == IF hasParams
              THEN substituteParams(Template(route.routePath), route.params)
              ELSE Template(route.routePath)
  IN [functionArgs |->
        (IF hasParams THEN <<ArgOf("params", route.params)>> ELSE <<>>)
        \o (IF hasQuery THEN <<ArgOf("query", route.queryParams)>> ELSE <<>>),
      pathConstruction |->
        IF hasQuery
        THEN path \o <<QueryExpr([k \in 1..Len(route.queryParams) |->
                                    queryPart(route.queryParams[k])])>>
        ELSE path]

----------------------------------------------------------------------------
(* Evaluation of an emitted callable, as the language evaluates its text *)

Threw == [threw |-> TRUE, s |-> <<>>]
Value(s) == [threw |-> FALSE, s |-> s]

\* ${params.NAME}
evalScalar(name, params) ==
  IF params = Undefined THEN Threw
  ELSE Value(JsToString(Get(params, name)))

\* a variant without the optional chaining: ${params.NAME ? ... : ''}
evalCatchAllUnguarded(name, params) ==
  IF params = Undefined THEN Threw
  ELSE LET x == Get(params, name)
       IN IF ~Truthy(x) THEN Value(<<>>)
          ELSE IF x.t = "array" THEN Value(join(x.v, S("/")))
          ELSE Threw

\* ${params?.NAME ? params.NAME.join('/') : ''}
evalCatchAll(name, params) ==
  IF params = Undefined THEN Value(<<>>)
  ELSE LET x == Get(params, name)
       IN IF ~Truthy(x) THEN Value(<<>>)
          ELSE IF x.t = "array" THEN Value(join(x.v, S("/")))
          ELSE Threw

\* query.N && query.N.length > 0
\*   ? '&N=' + query.N.map(val => encodeURIComponent(val)).join('&N=') : ''
evalListPart(name, query) ==
  IF query = Undefined THEN Threw
  ELSE LET x == Get(query, name)
           sep == <<"&">> \o name \o <<"=">>
       IN IF ~Truthy(x) THEN Value(<<>>)
          ELSE IF x.t = "array"
               THEN IF Len(x.v) > 0
                    THEN Value(sep \o join([k \in 1..Len(x.v) |->
                                              encodeURIComponent(x.v[k])], sep))
                    ELSE Value(<<>>)
          ELSE IF x.t = "string" THEN Threw
          ELSE Value(<<>>)

\* query.N ? '&N=' + encodeURIComponent(query.N) : ''
evalScalarPart(name, query) ==
  IF query = Undefined THEN Threw
  ELSE LET x == Get(query, name)
       IN IF Truthy(x)
          THEN Value(<<"&">> \o name \o <<"=">>
                       \o encodeURIComponent(JsToString(x)))
          ELSE Value(<<>>)

\* [PARTS].join('')
RECURSIVE evalQueryParts(_, _)
evalQueryParts(parts, query) ==
  IF parts = <<>> THEN Value(<<>>)
  ELSE LET h == IF parts[1].list THEN evalListPart(parts[1].name, query)
                ELSE evalScalarPart(parts[1].name, query)
           r == evalQueryParts(Tail(parts), query)
       IN IF h.threw \/ r.threw THEN Threw ELSE Value(h.s \o r.s)

\* a variant that leaves the leading '&'
replaceLeadingAmpOmitted(s) == s

\* .replace(/^&/, '?')
replaceLeadingAmp(s) ==
  IF startsWith(s, S("&")) THEN S("?") \o Tail(s) ELSE s

evalQuery(parts, query) ==
  LET r == evalQueryParts(parts, query)
  IN IF r.threw THEN Threw ELSE Value(replaceLeadingAmp(r.s))

\* the path part of the template: everything but the query expression
RECURSIVE evalPath(_, _)
evalPath(tpl, params) ==
  IF tpl = <<>> THEN Value(<<>>)
  ELSE LET h == CASE tpl[1].k = "lit" -> Value(tpl[1].name)
                  [] tpl[1].k = "scalar" -> evalScalar(tpl[1].name, params)
                  [] tpl[1].k = "catchAll" -> evalCatchAll(tpl[1].name, params)
                  [] OTHER -> Value(<<>>)
           r == evalPath(Tail(tpl), params)
       IN IF h.threw \/ r.threw THEN Threw ELSE Value(h.s \o r.s)

\* the value of fn(...args): the arguments are bound by position, as
\* functionArgs lists them; a TypeError makes the call throw
invoke(fn, params, query) ==
  LET tpl == fn.pathConstruction
      n == Len(tpl)
      hasQuery == n > 0 /\ tpl[n].k = "query"
      path == evalPath(IF hasQuery THEN SubSeq(tpl, 1, n - 1) ELSE tpl, params)
      suffix == IF hasQuery THEN evalQuery(tpl[n].parts, query) ELSE Value(<<>>)
  IN IF path.threw \/ suffix.threw
     THEN [threw |-> TRUE, path |-> <<>>, suffix |-> <<>>, url |-> <<>>]
     ELSE [threw |-> FALSE, path |-> path.s, suffix |-> suffix.s,
           url |-> path.s \o suffix.s]

----------------------------------------------------------------------------
(* Route table builder *)

\* replace(/:([a-zA-Z0-9_]+)\*?/g, '$1')
RECURSIVE replaceMarkers(_, _)
replaceMarkers(s, i) ==
  IF i > Len(s) THEN <<>>
  ELSE LET e == SpanIn(s, i + 1, NameChars)
           last == IF e + 1 <= Len(s) /\ s[e + 1] = "*" THEN e + 1 ELSE e
       IN IF s[i] = ":" /\ e >= i + 1
          THEN SubSeq(s, i + 1, e) \o replaceMarkers(s, last + 1)
          ELSE <<s[i]>> \o replaceMarkers(s, i + 1)

routeName(routePath) ==
  IF routePath = S("/") THEN S("home")
  ELSE replaceMarkers(
         IF startsWith(routePath, S("/")) THEN Tail(routePath) ELSE routePath,
         1)

\* routeStructure is a function from key paths (sequences of keys) to nodes:
\* a nested object, or the text of a callable.  route is the entry the text
\* was written for; the program keeps the text only.
ObjectNode == [kind |-> "object", fn |-> <<>>, route |-> <<>>]
CallableNode(route) ==
  [kind |-> "callable", fn |-> emitCallable(route), route |-> route]

EmptyStructure == [k \in {} |-> ObjectNode]

IsPrefix(p, q) == Len(p) <= Len(q) /\ SubSeq(q, 1, Len(p)) = p

\* the body of routes.forEach for one route.  Walking down through a key that
\* holds the text of a callable makes current a string, and the assignment
\* to a property of a string throws a TypeError in strict mode.
insertRoute(rs, route) ==
  LET parts == split(routeName(route.routePath), "/")
      n == Len(parts)
      inner == {SubSeq(parts, 1, i) : i \in 1..(n - 1)}
      \* keys that survive: all but the subtree below the final key
      kept == {p \in DOMAIN rs : ~(IsPrefix(parts, p) /\ p # parts)}
  IN IF \E p \in inner : p \in DOMAIN rs /\ rs[p].kind = "callable"
     THEN [threw |-> TRUE, rs |-> rs]
     ELSE [threw |-> FALSE,
           rs |-> [p \in kept \cup inner \cup {parts} |->
                     IF p = parts THEN CallableNode(route)
                     ELSE IF p \in DOMAIN rs THEN rs[p]
                     ELSE ObjectNode]]

RECURSIVE buildStructure(_, _)
buildStructure(rs, routes) ==
  IF routes = <<>> THEN [threw |-> FALSE, rs |-> rs]
  ELSE LET r == insertRoute(rs, routes[1])
       IN IF r.threw THEN r ELSE buildStructure(r.rs, Tail(routes))

----------------------------------------------------------------------------
(* Directory walker *)

\* replace(/\*\*/g, '.*')
RECURSIVE replaceDoubleStar(_, _)
replaceDoubleStar(s, i) ==
  IF i > Len(s) THEN <<>>
  ELSE IF StartsAt(s, i, S("**"))
       THEN S(".*") \o replaceDoubleStar(s, i + 2)
       ELSE <<s[i]>> \o replaceDoubleStar(s, i + 1)

\* replace(/\*/g, '[^/]*')
RECURSIVE replaceStar(_, _)
replaceStar(s, i) ==
  IF i > Len(s) THEN <<>>
  ELSE IF s[i] = "*"
       THEN S("[^/]*") \o replaceStar(s, i + 1)
       ELSE <<s[i]>> \o replaceStar(s, i + 1)

\* the source text of the regular expression built from a pattern
patternSource(pattern) == replaceStar(replaceDoubleStar(pattern, 1), 1)

\* new RegExp(source), for sources made of literal characters, '.' and
\* '[^/]*': the sequence of its terms
RECURSIVE regexTerms(_, _)
regexTerms(src, i) ==
  IF i > Len(src) THEN <<>>
  ELSE IF StartsAt(src, i, S("[^/]*"))
       THEN <<[k |-> "notSlashStar", c |-> ""]>> \o regexTerms(src, i + 5)
       ELSE IF src[i] = "."
            THEN <<[k |-> "any", c |-> ""]>> \o regexTerms(src, i + 1)
            ELSE <<[k |-> "lit", c |-> src[i]]>> \o regexTerms(src, i + 1)

\* the terms from the k-th on match s at position i
RECURSIVE matchHere(_, _, _, _)
matchHere(terms, k, s, i) ==
  IF k > Len(terms) THEN TRUE
  ELSE CASE terms[k].k = "notSlashStar" ->
              \E e \in (i - 1)..SpanNot(s, i, {"/"}) :
                 matchHere(terms, k + 1, s, e + 1)
         [] terms[k].k = "any" ->
              i <= Len(s) /\ s[i] # "\n" /\ matchHere(terms, k + 1, s, i + 1)
         [] OTHER ->
              i <= Len(s) /\ s[i] = terms[k].c
                /\ matchHere(terms, k + 1, s, i + 1)

\* regex.test(relativePath): a match anywhere in the string
regexTest(pattern, relativePath) ==
  LET terms == regexTerms(patternSource(pattern), 1)
  IN \E i \in 1..(Len(relativePath) + 1) : matchHere(terms, 1, relativePath, i)

shouldExclude(excludePatterns, relativePath) ==
  \E k \in 1..Len(excludePatterns) : regexTest(excludePatterns[k], relativePath)

\* a pattern read as a glob: '**' is any substring, '*' is any substring
\* without a path separator, every other character is itself
RECURSIVE globTerms(_, _)
globTerms(pattern, i) ==
  IF i > Len(pattern) THEN <<>>
  ELSE IF StartsAt(pattern, i, S("**"))
       THEN <<[k |-> "anyRun", c |-> ""]>> \o globTerms(pattern, i + 2)
       ELSE IF pattern[i] = "*"
            THEN <<[k |-> "segmentRun", c |-> ""]>> \o globTerms(pattern, i + 1)
            ELSE <<[k |-> "lit", c |-> pattern[i]]>> \o globTerms(pattern, i + 1)

RECURSIVE globHere(_, _, _, _)
globHere(terms, k, s, i) ==
  IF k > Len(terms) THEN TRUE
  ELSE CASE terms[k].k = "anyRun" ->
              \E e \in (i - 1)..Len(s) : globHere(terms, k + 1, s, e + 1)
         [] terms[k].k = "segmentRun" ->
              \E e \in (i - 1)..SpanNot(s, i, {"/"}) : globHere(terms, k + 1, s, e + 1)
         [] OTHER ->
              i <= Len(s) /\ s[i] = terms[k].c /\ globHere(terms, k + 1, s, i + 1)

\* the pattern matches somewhere inside the path
globMatches(pattern, path) ==
  LET terms == globTerms(pattern, 1)
  IN \E i \in 1..(Len(path) + 1) : globHere(terms, 1, path, i)

\* file.name of a path
baseName(path) ==
  LET parts == split(path, "/") IN parts[Len(parts)]

\* the directories the walk enters to reach a path below the input
\* directory, and the path itself, each relative to the input directory
Visited(path) ==
  {SubSeq(path, 1, j - 1) : j \in {j \in 1..Len(path) : path[j] = "/"}}
    \cup {path}

\* /\.(tsx|ts|jsx|js)$/.test(file.name)
hasRouteExtension(name) == \E e \in Extensions : endsWith(name, e)

\* file.name.match(/^(page|layout)\.(tsx|ts|jsx|js)$/)
isAppRouterFile(name) ==
  \E r \in {S("page"), S("layout")}, e \in Extensions : name = r \o e

\* !file.name.match(/^(layout|loading|error|not-found|template|global-error)\.(tsx|ts|jsx|js)$/)
isRegularFile(name) ==
  ~\E r \in {S("layout"), S("loading"), S("error"), S("not-found"),
             S("template"), S("global-error")},
      e \in Extensions : name = r \o e

\* whether the walk from the input directory yields the file at path
\* (relative to the input directory); relativePath is relative to the
\* working directory
yields(input, excludePatterns, path) ==
  /\ \A v \in Visited(path) :
        ~shouldExclude(excludePatterns, input \o S("/") \o v)
  /\ hasRouteExtension(baseName(path))
  /\ isAppRouterFile(baseName(path)) \/ isRegularFile(baseName(path))

\* files lists the files below the input directory in the order the walk
\* meets them
RECURSIVE getAllFilePaths(_, _, _)
getAllFilePaths(input, excludePatterns, files) ==
  IF files = <<>> THEN <<>>
  ELSE (IF yields(input, excludePatterns, files[1].path)
        THEN <<files[1]>> ELSE <<>>)
         \o getAllFilePaths(input, excludePatterns, Tail(files))

----------------------------------------------------------------------------
(* Bounds and input universes *)

\* the longest list handed to a callable
MaxListLen == 2
\* the deepest file path of the rewriter's input universe
MaxDepth == 3
\* the largest number of fields of a query contract
MaxFields == 3
\* the largest number of directories that cannot be opened
MaxUnreadable == 2
\* the largest number of changes made below the input directory while it
\* is watched
MaxChanges == 2

\* the lists a consumer passes: the first n words, for every n up to the bound
ListsUpTo(words, n) ==
  {SubSeq(words, 1, k) : k \in 0..(IF n < Len(words) THEN n ELSE Len(words))}

RECURSIVE SeqsUpTo(_, _)
SeqsUpTo(set, n) ==
  IF n = 0 THEN {<<>>}
  ELSE LET shorter == SeqsUpTo(set, n - 1)
       IN shorter \cup {<<x>> \o q : x \in set, q \in {r \in shorter : Len(r) = n - 1}}

DefaultExcludePatterns == <<S("**/api/**"), S("**/_*")>>

\* defaultConfig, with input './pages' written relative to the working directory
defaultConfig ==
  [input |-> S("pages"),
   framework |-> "nextjs",
   excludePatterns |-> DefaultExcludePatterns,
   includeQueryParams |-> TRUE]

File(path, content) == [path |-> S(path), content |-> S(content)]

SearchContract ==
  "export interface QueryParams {\n  q: string;\n  page?: number;\n  category?: string[]; // Example: for multiple categories\n}\n"

\* the argument values a consumer passes
PathWords == <<S("a"), S("b"), S("c"), S("d")>>
QueryStrings == {S(""), S("react"), S("a&b")}
QueryNumbers == {0, 2}
QueryWords == <<S("tutorial"), S("beginner"), S("a&b"), S("")>>

\* the values the declared type of a param admits
ParamValues(p) ==
  (IF p.optional THEN {Undefined} ELSE {})
    \cup (IF p.catchAll
          THEN {Arr(l) : l \in ListsUpTo(PathWords, MaxListLen)}
          ELSE {Str(PathWords[k]) : k \in 1..2})

\* the values the declared type of a query field admits
QueryValues(q) ==
  (IF q.optional THEN {Undefined} ELSE {})
    \cup (CASE q.type = S("string") -> {Str(w) : w \in QueryStrings}
            [] q.type = S("number") -> {Num(n) : n \in QueryNumbers}
            [] q.type = S("boolean") -> {Bool(b) : b \in BOOLEAN}
            [] q.type = S("string[]") ->
                 {Arr(l) : l \in ListsUpTo(QueryWords, MaxListLen)}
            [] OTHER -> {Str(w) : w \in QueryStrings})

\* the objects that give every declared name one of the values admitted for it
RECURSIVE Objects(_, _)
Objects(specs, values) ==
  IF specs = <<>> THEN {[n \in {} |-> Undefined]}
  ELSE {(specs[1].name :> v) @@ o :
          v \in values[1], o \in Objects(Tail(specs), Tail(values))}

\* the arguments the signature of a callable admits: the argument may be
\* left out when every field is optional (and when there is no such argument)
Arguments(specs, values) ==
  (IF \A k \in 1..Len(specs) : specs[k].optional THEN {Undefined} ELSE {})
    \cup (IF specs = <<>> THEN {} ELSE {Obj(o) : o \in Objects(specs, values)})

ParamArguments(route) ==
  Arguments(route.params,
            [k \in 1..Len(route.params) |-> ParamValues(route.params[k])])

QueryArguments(route) ==
  Arguments(route.queryParams,
            [k \in 1..Len(route.queryParams) |-> QueryValues(route.queryParams[k])])

----------------------------------------------------------------------------
(* The run: generateRoutes, then calls of the emitted callables *)

NoCall ==
  [called |-> FALSE, key |-> <<>>, route |-> <<>>, params |-> Undefined,
   query |-> Undefined,
   result |-> [threw |-> FALSE, path |-> <<>>, suffix |-> <<>>, url |-> <<>>]]

NoOutput == [written |-> FALSE, routes |-> EmptyStructure]

\* a disk on which the input directory exists, every directory can be
\* opened and the output file can be written
SoundDisk == [exists |-> TRUE, unreadable |-> {}, writable |-> TRUE]

NoLog == [log |-> {}, status |-> "running"]

\* router-gen.config.json: not there, there with the fields it sets, or
\* there and not JSON
NoFile == [found |-> FALSE, valid |-> FALSE, json |-> <<>>]
ConfigFile(json) == [found |-> TRUE, valid |-> TRUE, json |-> json]
MalformedFile == [found |-> TRUE, valid |-> FALSE, json |-> <<>>]

\* the command line without a flag
NoFlags == [input |-> <<>>, framework |-> "none", noQueryParams |-> FALSE]

\* generateRoutes(config) called by the generate command, no flag given and
\* no config file found
GenerateCli == [command |-> "generate", argv |-> NoFlags, file |-> NoFile]

NoWatcher == [events |-> <<>>, active |-> 0, changes |-> 0]

InitRun ==
  /\ pc = "start"
  /\ allRouteFiles = <<>>
  /\ discoveredRoutes = <<>>
  /\ output = NoOutput
  /\ lastCall = NoCall
  /\ disk = SoundDisk
  /\ proc = NoLog
  /\ cli = GenerateCli
  /\ watcher = NoWatcher

\* the directories on the way from the input directory to a path, the input
\* directory itself (the empty path) included
dirsOf(path) == (Visited(path) \ {path}) \cup {<<>>}

\* the directory at which readdirSync throws on the way to a path: the
\* nearest to the input directory that cannot be opened
failedDir(path, unreadable) ==
  LET failing == dirsOf(path) \cap unreadable
  IN IF failing = {} THEN {}
     ELSE {CHOOSE d \in failing : \A e \in failing : Len(d) <= Len(e)}

\* a variant in which one directory that cannot be opened ends the walk
readdirAborting(files, unreadable) ==
  IF \E i \in 1..Len(files) : failedDir(files[i].path, unreadable) # {}
  THEN <<>>
  ELSE files

\* try { readdirSync(dirPath) ... } catch: a directory that cannot be opened
\* lists nothing, and the walk of its parent goes on
readdir(files, unreadable) ==
  SelectSeq(files, LAMBDA f : failedDir(f.path, unreadable) = {})

\* the directories the walk tries to open and cannot: those it reaches
readErrors(input, excludePatterns, files, unreadable) ==
  {d \in UNION {failedDir(files[i].path, unreadable) : i \in 1..Len(files)} :
     \A v \in Visited(d) :
        v # <<>> => ~shouldExclude(excludePatterns, input \o S("/") \o v)}

LogEntry(kind, path) == [kind |-> kind, path |-> path]

\* the console.error calls of a run, as a set of entries added to the log
Logged(entries) == [proc EXCEPT !.log = @ \cup entries]

InWatchMode == cli.command = "watch"

\* generateRoutes returns to its caller: the generate command ends the
\* process, the handler of a watcher event goes back to the event loop
Returned(wrote) ==
  IF InWatchMode THEN "watching" ELSE IF wrote THEN "generated" ELSE "returned"

ReturnedStatus == IF InWatchMode THEN "running" ELSE "exit0"

RunEnded == IF InWatchMode THEN [watcher EXCEPT !.active = @ - 1] ELSE watcher

\* the existsSync guard, and
\* const allRouteFiles = getAllFilePaths(inputPath, config.excludePatterns)
Walk ==
  /\ pc = "start"
  /\ discoveredRoutes' = <<>>
  /\ IF ~disk.exists
     THEN /\ allRouteFiles' = <<>>
          /\ proc' = [Logged({LogEntry("input-missing", config.input)})
                        EXCEPT !.status = ReturnedStatus]
          /\ pc' = Returned(FALSE)
          /\ watcher' = RunEnded
     ELSE /\ allRouteFiles' =
               getAllFilePaths(config.input, config.excludePatterns,
                               readdir(fsFiles, disk.unreadable))
          /\ proc' = Logged({LogEntry("read-error", d) :
                               d \in readErrors(config.input, config.excludePatterns,
                                                fsFiles, disk.unreadable)})
          /\ pc' = "discover"
          /\ watcher' = watcher
  /\ UNCHANGED <<config, fsFiles, output, lastCall, disk, cli>>

routeEntry(file) ==
  LET routePath == getRoutePathFromFilePath(file.path, config.framework)
  IN [filePath |-> file.path,
      routePath |-> routePath,
      params |-> extractParams(routePath),
      queryParams |-> IF config.includeQueryParams
                      THEN extractQueryParams(file.content) ELSE <<>>]

\* readFileSync(filePath, 'utf-8'): the content the file has now, nothing
\* when the file is no longer there
readFileSync(path) ==
  {fsFiles[i].content : i \in {i \in 1..Len(fsFiles) : fsFiles[i].path = path}}

\* the body of allRouteFiles.forEach; the file is read, by extractQueryParams,
\* only under includeQueryParams, and a read that throws is caught nowhere
DiscoverRoute ==
  /\ pc = "discover"
  /\ Len(discoveredRoutes) < Len(allRouteFiles)
  /\ LET file == allRouteFiles[Len(discoveredRoutes) + 1]
     IN IF ~config.includeQueryParams
        THEN /\ discoveredRoutes' = Append(discoveredRoutes, routeEntry(file))
             /\ UNCHANGED <<pc, proc>>
        ELSE IF readFileSync(file.path) = {}
        THEN /\ discoveredRoutes' = discoveredRoutes
             /\ pc' = "crashed"
             /\ proc' = [Logged({LogEntry("uncaught", file.path)})
                           EXCEPT !.status = "exit1"]
        ELSE /\ discoveredRoutes' =
                  Append(discoveredRoutes,
                         routeEntry([file EXCEPT !.content =
                                       CHOOSE c \in readFileSync(file.path) : TRUE]))
             /\ UNCHANGED <<pc, proc>>
  /\ UNCHANGED <<config, fsFiles, allRouteFiles, output, lastCall,
                 disk, cli, watcher>>

\* generateRoutesFile(discoveredRoutes, outputPath): the structure is built,
\* then the file is written inside try/catch, and generateRoutes returns
GenerateRoutesFile ==
  /\ pc = "discover"
  /\ Len(discoveredRoutes) = Len(allRouteFiles)
  /\ LET r == buildStructure(EmptyStructure, discoveredRoutes)
     IN IF r.threw
        THEN /\ pc' = "crashed"
             /\ output' = output
             /\ proc' = [Logged({LogEntry("uncaught", <<>>)}) EXCEPT !.status = "exit1"]
             /\ watcher' = watcher
        ELSE IF ~disk.writable
        THEN /\ pc' = Returned(FALSE)
             /\ output' = output
             /\ proc' = [Logged({LogEntry("write-error", <<>>),
                                 LogEntry("write-reason", <<>>)})
                           EXCEPT !.status = ReturnedStatus]
             /\ watcher' = RunEnded
        ELSE /\ pc' = Returned(TRUE)
             /\ output' = [written |-> TRUE, routes |-> r.rs]
             /\ proc' = [proc EXCEPT !.status = ReturnedStatus]
             /\ watcher' = RunEnded
  /\ UNCHANGED <<config, fsFiles, allRouteFiles, discoveredRoutes, lastCall,
                 disk, cli>>

Callables == {p \in DOMAIN output.routes : output.routes[p].kind = "callable"}

\* a consumer calls Routes.<key>(params, query) with arguments its signature
\* admits.  The callables are pure, so a call does not depend on the calls
\* before it, and one call is recorded per run.
CallRoute ==
  /\ pc = "generated"
  /\ ~lastCall.called
  /\ \E key \in Callables :
       LET node == output.routes[key]
       IN \E params \in ParamArguments(node.route),
             query \in QueryArguments(node.route) :
            lastCall' = [called |-> TRUE, key |-> key, route |-> node.route,
                         params |-> params, query |-> query,
                         result |-> invoke(node.fn, params, query)]
  /\ UNCHANGED <<config, fsFiles, pc, allRouteFiles, discoveredRoutes, output,
                 disk, proc, cli, watcher>>

Next == Walk \/ DiscoverRoute \/ GenerateRoutesFile \/ CallRoute

----------------------------------------------------------------------------
(* Inputs *)

ConfigFor(fw) == [defaultConfig EXCEPT !.framework = fw]

\* the files of a directory are met together: the walk is depth first
Under(dir, path) == StartsAt(path, 1, dir \o S("/"))

IsWalkOrder(files) ==
  /\ \A i, j \in 1..Len(files) : i # j => files[i] # files[j]
  /\ \A i \in 1..Len(files) : \A dir \in Visited(files[i].path) \ {files[i].path} :
       \A j, k \in 1..Len(files) :
          (j < k /\ k < i /\ Under(dir, files[j].path)) => Under(dir, files[k].path)

WalkOrders(tree) ==
  {files \in [1..Cardinality(tree) -> tree] : IsWalkOrder(files)}

\* the tree of the end-to-end scenario
EndToEndTree ==
  {File("index.tsx", ""), File("about.tsx", ""),
   File("blog/[slug].tsx", ""), File("docs/[[...slug]].tsx", "")}

\* test-app/pages
TestAppTree ==
  {File("about.tsx", ""), File("blogs/[slug].tsx", ""),
   File("docs/[[...slug]].tsx", ""), File("search.tsx", SearchContract)}

\* an index file next to a dynamic sibling and a file named as their directory
SiblingTree ==
  {File("blog/index.tsx", ""), File("blog/[slug].tsx", ""), File("blog.tsx", "")}

\* an App Router tree with a route group and convention files
AppRouterTree ==
  {File("page.tsx", ""), File("layout.tsx", ""), File("about/page.tsx", ""),
   File("about/loading.tsx", ""), File("(dashboard)/analytics/page.tsx", "")}

\* a flat-route tree with excluded files
FlatTree ==
  {File("_index.tsx", ""), File("blog.$slug.tsx", ""), File("api/users.ts", ""),
   File("about.tsx", "")}

\* two files of one dotted name below a directory, and a file named as the
\* directory
CollisionTree ==
  {File("blog/[slug].tsx", ""), File("blog/slug.tsx", SearchContract),
   File("blog.tsx", "")}

\* the Pages Router directory with an index file and a dynamic sibling
PagesBlogTree == {File("blog/index.tsx", ""), File("blog/[slug].tsx", "")}

Trees ==
  {EndToEndTree, TestAppTree, SiblingTree, AppRouterTree, FlatTree,
   CollisionTree, PagesBlogTree}

Init ==
  /\ \E fw \in Frameworks : config = ConfigFor(fw)
  /\ \E tree \in Trees : fsFiles \in WalkOrders(tree)
  /\ InitRun

Spec == Init /\ [][Next]_vars

\* the rewriter's input universe: one file, its path made of up to MaxDepth
\* names, under a configuration that excludes nothing
SegmentNames ==
  {S("index"), S("blog"), S("[id]"), S("[[...slug]]"), S("[...rest]"),
   S("(a)"), S("page"), S("$id")}

PathUniverse ==
  {join(segs, S("/")) \o e :
     segs \in SeqsUpTo(SegmentNames, MaxDepth) \ {<<>>}, e \in Extensions}

InitRewrite ==
  /\ \E fw \in Frameworks :
        config = [ConfigFor(fw) EXCEPT !.excludePatterns = <<>>]
  /\ \E path \in PathUniverse : fsFiles = <<[path |-> path, content |-> <<>>]>>
  /\ InitRun

SpecRewrite == InitRewrite /\ [][Next]_vars

\* the emitter's input universe: one file that declares a query contract of
\* up to MaxFields fields
FieldDecls ==
  {S("q: string"), S("q?: string"), S("page?: number"),
   S("category?: string[]"), S("exact?: boolean")}

Contracts ==
  {decls \in SeqsUpTo(FieldDecls, MaxFields) :
     /\ \A i, j \in 1..Len(decls) : i # j => decls[i] # decls[j]
     /\ ~({S("q: string"), S("q?: string")} \subseteq {decls[i] : i \in 1..Len(decls)})}

RECURSIVE DeclLines(_)
DeclLines(decls) ==
  IF decls = <<>> THEN <<>>
  ELSE S("  ") \o decls[1] \o S(";\n") \o DeclLines(Tail(decls))

ContractText(decls) ==
  InterfaceKeyword \o S(" {\n") \o DeclLines(decls) \o S("}\n")

QueryRoutePaths == {S("search.tsx"), S("blog/[slug].tsx"), S("docs/[[...slug]].tsx")}

InitQuery ==
  /\ config = defaultConfig
  /\ \E path \in QueryRoutePaths, decls \in Contracts :
        fsFiles = <<[path |-> path, content |-> ContractText(decls)]>>
  /\ InitRun

SpecQuery == InitQuery /\ [][Next]_vars

\* the walker's input universe: a small tree under each dialect and each of
\* a few lists of exclusion patterns
ApiTree == {File("index.tsx", ""), File("api/users.ts", ""), File("_app.tsx", "")}

DocsTree ==
  {File("docs/a/wip/x.tsx", ""), File("docs/a/b/wip/y.tsx", ""),
   File("about.test.ts", "")}

ConventionTree ==
  {File("page.tsx", ""), File("about/page.tsx", ""), File("about/loading.tsx", ""),
   File("components/Button.tsx", "")}

BoundaryTree ==
  {File("layout.tsx", ""), File("error.tsx", ""), File("not-found.tsx", ""),
   File("template.tsx", "")}

AstroTree ==
  {File("index.astro", ""), File("about.astro", ""), File("blog/[slug].astro", "")}

WalkTrees == {ApiTree, DocsTree, ConventionTree, BoundaryTree, AstroTree}

PatternLists ==
  {DefaultExcludePatterns, <<S("**/docs/**/wip")>>, <<S("*.test.ts")>>, <<>>}

InitWalk ==
  /\ \E fw \in Frameworks, patterns \in PatternLists :
        config = [ConfigFor(fw) EXCEPT !.excludePatterns = patterns]
  /\ \E tree \in WalkTrees : fsFiles \in WalkOrders(tree)
  /\ InitRun

SpecWalk == InitWalk /\ [][Next]_vars

\* the query extractor's input universe: one file whose contract has up to
\* MaxFields fields, each field line with or without a trailing comment, and
\* the contract of the README
ReadmeContract ==
  "export interface QueryParams {\n  q: string;              // Required query param\n  page?: number;          // Optional query param  \n  category?: string[];    // Optional array query param\n}\n"

TrailingComment == S("    // note")

RECURSIVE CommentedLines(_, _)
CommentedLines(decls, commented) ==
  IF decls = <<>> THEN <<>>
  ELSE S("  ") \o decls[1] \o S(";")
         \o (IF commented[1] THEN TrailingComment ELSE <<>>) \o S("\n")
         \o CommentedLines(Tail(decls), Tail(commented))

CommentedText(decls, commented) ==
  InterfaceKeyword \o S(" {\n") \o CommentedLines(decls, commented) \o S("}\n")

InitComment ==
  /\ config = defaultConfig
  /\ \/ fsFiles = <<File("search.tsx", ReadmeContract)>>
     \/ \E decls \in Contracts : \E commented \in [1..Len(decls) -> BOOLEAN] :
          fsFiles = <<[path |-> S("search.tsx"),
                       content |-> CommentedText(decls, commented)]>>
  /\ InitRun

SpecComment == InitComment /\ [][Next]_vars

\* the runs on a disk that may fail: the input directory may be missing, up
\* to MaxUnreadable directories cannot be opened, the write may be refused
DiskTree ==
  {File("index.tsx", ""), File("blog/[slug].tsx", ""),
   File("blog/drafts/a.tsx", ""), File("docs/intro.tsx", ""),
   File("api/users.ts", "")}

DirsOfTree(tree) == UNION {dirsOf(f.path) : f \in tree}

Disks(tree) ==
  {[exists |-> e, unreadable |-> u, writable |-> w] :
     e \in BOOLEAN, w \in BOOLEAN,
     u \in {d \in SUBSET DirsOfTree(tree) : Cardinality(d) <= MaxUnreadable}}

InitDisk ==
  /\ config = defaultConfig
  /\ fsFiles \in WalkOrders(DiskTree)
  /\ pc = "start"
  /\ allRouteFiles = <<>>
  /\ discoveredRoutes = <<>>
  /\ output = NoOutput
  /\ lastCall = NoCall
  /\ disk \in Disks(DiskTree)
  /\ proc = NoLog
  /\ cli = GenerateCli
  /\ watcher = NoWatcher

SpecDisk == InitDisk /\ [][Next]_vars

----------------------------------------------------------------------------
(* The commands and the watcher *)

\* loadConfig: { ...defaultConfig, ...config } for a file that parses; a file
\* that does not parse is reported and the defaults are returned
loadConfig(file) ==
  IF file.found /\ file.valid THEN file.json @@ defaultConfig ELSE defaultConfig

loadConfigErrors(file) ==
  IF file.found /\ ~file.valid THEN {LogEntry("config-error", <<>>)} ELSE {}

\* the options the parser hands to the action: the value of a flag that was
\* given, 'nextjs' (the default declared with the option) for --framework
\* when it was not, queryParams false under --no-query-params
options(argv) ==
  [input |-> argv.input,
   framework |-> IF argv.framework = "none" THEN "nextjs" ELSE argv.framework,
   queryParams |-> ~argv.noQueryParams]

\* if (options.input) ...; if (options.framework) ...;
\* if (options.queryParams === false) ...
overrideWithOptions(loaded, opts) ==
  LET withInput == IF opts.input # <<>>
                   THEN [loaded EXCEPT !.input = opts.input] ELSE loaded
      withFramework == IF opts.framework # ""
                       THEN [withInput EXCEPT !.framework = opts.framework]
                       ELSE withInput
  IN IF opts.queryParams = FALSE
     THEN [withFramework EXCEPT !.includeQueryParams = FALSE]
     ELSE withFramework

effectiveConfig == overrideWithOptions(loadConfig(cli.file), options(cli.argv))

\* the action of the generate command, up to its call of generateRoutes
GenerateCommand ==
  /\ pc = "command"
  /\ cli.command = "generate"
  /\ config' = effectiveConfig
  /\ proc' = Logged(loadConfigErrors(cli.file))
  /\ pc' = "start"
  /\ UNCHANGED <<fsFiles, allRouteFiles, discoveredRoutes, output, lastCall,
                 disk, cli, watcher>>

\* ignored: config.excludePatterns, the patterns read as globs by the watcher
ignored(excludePatterns, path) ==
  \E k \in 1..Len(excludePatterns) : globMatches(excludePatterns[k], path)

watched(cfg, path) == ~ignored(cfg.excludePatterns, cfg.input \o S("/") \o path)

\* ignoreInitial: false: one 'add' for every watched file that is there when
\* the watcher starts, then 'ready'
initialScan(cfg, files) ==
  LET found == SelectSeq(files, LAMBDA f : watched(cfg, f.path))
  IN [i \in 1..Len(found) |-> "add"] \o <<"ready">>

\* the action of the watch command: process.exit(1) without the input
\* directory, createWatcher otherwise
WatchCommand ==
  /\ pc = "command"
  /\ cli.command = "watch"
  /\ config' = effectiveConfig
  /\ IF ~disk.exists
     THEN /\ proc' = [Logged(loadConfigErrors(cli.file)
                               \cup {LogEntry("input-missing", config'.input)})
                        EXCEPT !.status = "exit1"]
          /\ pc' = "exited"
          /\ watcher' = watcher
     ELSE /\ proc' = Logged(loadConfigErrors(cli.file))
          /\ pc' = "watching"
          /\ watcher' = [watcher EXCEPT !.events = initialScan(config', fsFiles)]
  /\ UNCHANGED <<fsFiles, allRouteFiles, discoveredRoutes, output, lastCall,
                 disk, cli>>

\* a variant in which a handler is called while the run of another is under way
HandleEventOverlapping ==
  /\ pc \in {"watching", "start", "discover"}
  /\ watcher.events # <<>>
  /\ watcher' = [watcher EXCEPT !.events = Tail(@), !.active = @ + 1]
  /\ pc' = "start"
  /\ UNCHANGED <<config, fsFiles, allRouteFiles, discoveredRoutes, output,
                 lastCall, disk, proc, cli>>

\* a variant in which the handler of 'unlink' does not run the pipeline
HandleEventButUnlink ==
  /\ pc = "watching"
  /\ watcher.events # <<>>
  /\ IF Head(watcher.events) = "unlink"
     THEN /\ watcher' = [watcher EXCEPT !.events = Tail(@)]
          /\ pc' = pc
     ELSE /\ watcher' = [watcher EXCEPT !.events = Tail(@), !.active = @ + 1]
          /\ pc' = "start"
  /\ UNCHANGED <<config, fsFiles, allRouteFiles, discoveredRoutes, output,
                 lastCall, disk, proc, cli>>

\* watcher.on('ready' | 'add' | 'change' | 'unlink', ...): the event loop
\* calls the handler of the next event once the handler before it has
\* returned, and each handler calls generateRoutes(config)
HandleEvent ==
  /\ pc = "watching"
  /\ watcher.events # <<>>
  /\ watcher' = [watcher EXCEPT !.events = Tail(@), !.active = @ + 1]
  /\ pc' = "start"
  /\ UNCHANGED <<config, fsFiles, allRouteFiles, discoveredRoutes, output,
                 lastCall, disk, proc, cli>>

\* the files that come and go below the watched directory, in walk order,
\* and the contents each may have
WatchPaths ==
  <<S("_app.tsx"), S("about.tsx"), S("blog/[slug].tsx"), S("index.tsx")>>

QContract == S("export interface QueryParams { q: string; }")

Contents(path) == IF path = S("about.tsx") THEN {<<>>, QContract} ELSE {<<>>}

PathsOf(files) == {files[i].path : i \in 1..Len(files)}

\* the tree with a file put at a path (added, or written again), and with
\* the file at a path removed
withFile(files, path, content) ==
  LET paths == SelectSeq(WatchPaths, LAMBDA p : p \in PathsOf(files) \cup {path})
  IN [i \in 1..Len(paths) |->
        IF paths[i] = path THEN [path |-> path, content |-> content]
        ELSE CHOOSE f \in {files[j] : j \in 1..Len(files)} : f.path = paths[i]]

withoutFile(files, path) == SelectSeq(files, LAMBDA f : f.path # path)

\* the event the watcher emits for a change of a file it watches
emitted(kind, path) ==
  [watcher EXCEPT !.changes = @ + 1,
                  !.events = IF watched(config, path) THEN Append(@, kind) ELSE @]

\* somebody adds, rewrites or removes a file below the watched directory,
\* at any moment of the life of the watcher
FsChange ==
  /\ InWatchMode
  /\ pc \in {"watching", "start", "discover"}
  /\ watcher.changes < MaxChanges
  /\ \E i \in 1..Len(WatchPaths) :
       LET path == WatchPaths[i]
       IN \/ /\ path \notin PathsOf(fsFiles)
             /\ \E c \in Contents(path) : fsFiles' = withFile(fsFiles, path, c)
             /\ watcher' = emitted("add", path)
          \/ /\ path \in PathsOf(fsFiles)
             /\ \E c \in Contents(path) \ readFileSync(path) :
                  fsFiles' = withFile(fsFiles, path, c)
             /\ watcher' = emitted("change", path)
          \/ /\ path \in PathsOf(fsFiles)
             /\ fsFiles' = withoutFile(fsFiles, path)
             /\ watcher' = emitted("unlink", path)
  /\ UNCHANGED <<config, pc, allRouteFiles, discoveredRoutes, output, lastCall,
                 disk, proc, cli>>

\* the command line: a flag is given or not
Flags ==
  {[input |-> i, framework |-> f, noQueryParams |-> q] :
     i \in {<<>>, S("app")}, f \in {"none", "nextjs", "remix"}, q \in BOOLEAN}

\* the config file: none, one that does not parse, and files that set some
\* of the options
ConfigFiles ==
  {NoFile, MalformedFile,
   ConfigFile([framework |-> "astro"]),
   ConfigFile([framework |-> "nextjs-app", includeQueryParams |-> FALSE]),
   ConfigFile([input |-> S("src/pages"), excludePatterns |-> <<S("**/_*")>>]),
   ConfigFile([input |-> S("routes"), framework |-> "nextjs"])}

ConfigOrder ==
  <<File("about.tsx", "export interface QueryParams { q: string; }"),
    File("api/users.ts", ""), File("blog/[slug].tsx", ""), File("index.tsx", "")>>

InitConfig ==
  /\ config = defaultConfig
  /\ fsFiles = ConfigOrder
  /\ pc = "command"
  /\ allRouteFiles = <<>>
  /\ discoveredRoutes = <<>>
  /\ output = NoOutput
  /\ lastCall = NoCall
  /\ disk \in {[SoundDisk EXCEPT !.exists = e] : e \in BOOLEAN}
  /\ proc = NoLog
  /\ cli \in {[command |-> c, argv |-> a, file |-> f] :
                c \in {"generate", "watch"}, a \in Flags, f \in ConfigFiles}
  /\ watcher = NoWatcher

NextConfig ==
  GenerateCommand \/ WatchCommand \/ HandleEvent \/ Walk \/ DiscoverRoute
    \/ GenerateRoutesFile

SpecConfig == InitConfig /\ [][NextConfig]_vars

WatchTrees ==
  {<<File("index.tsx", "")>>,
   <<File("_app.tsx", ""), File("about.tsx", ""), File("index.tsx", "")>>}

InitWatch ==
  /\ config = defaultConfig
  /\ fsFiles \in WatchTrees
  /\ pc = "command"
  /\ allRouteFiles = <<>>
  /\ discoveredRoutes = <<>>
  /\ output = NoOutput
  /\ lastCall = NoCall
  /\ disk \in {[SoundDisk EXCEPT !.exists = e, !.writable = w] :
                 e \in BOOLEAN, w \in BOOLEAN}
  /\ proc = NoLog
  /\ cli = [command |-> "watch", argv |-> NoFlags, file |-> NoFile]
  /\ watcher = NoWatcher

NextWatch ==
  WatchCommand \/ HandleEvent \/ FsChange \/ Walk \/ DiscoverRoute
    \/ GenerateRoutesFile

SpecWatch == InitWatch /\ [][NextWatch]_vars

----------------------------------------------------------------------------
(* Properties *)

Discovered == {discoveredRoutes[i] : i \in 1..Len(discoveredRoutes)}

Key1(a) == <<S(a)>>
Key2(a, b) == <<S(a), S(b)>>

SlugList(l) == Obj(S("slug") :> Arr(l))

EndToEndRun ==
  /\ config.framework = "nextjs"
  /\ {fsFiles[i] : i \in 1..Len(fsFiles)} = EndToEndTree

\* C1: under the nextjs dialect the tree {index, about, blog/[slug],
\* docs/[[...slug]]} yields exactly the four callables home, about, blog.slug
\* and docs.slug; home() is '/', about() is '/about', blog.slug({slug}) is
\* '/blog/' followed by the slug, docs.slug() is '/docs/' without a slug list
\* and '/docs/a/b' for the list a, b.
C1_EndToEnd ==
  EndToEndRun =>
    /\ pc # "crashed"
    /\ pc = "generated" =>
         Callables = {Key1("home"), Key1("about"),
                      Key2("blog", "slug"), Key2("docs", "slug")}
    /\ lastCall.called =>
         /\ ~lastCall.result.threw
         /\ lastCall.key = Key1("home") => lastCall.result.url = S("/")
         /\ lastCall.key = Key1("about") => lastCall.result.url = S("/about")
         /\ lastCall.key = Key2("blog", "slug") =>
              lastCall.result.url = S("/blog/") \o Get(lastCall.params, S("slug")).v
         /\ (lastCall.key = Key2("docs", "slug")
               /\ Get(lastCall.params, S("slug")) = Undefined) =>
              lastCall.result.url = S("/docs/")
         /\ (lastCall.key = Key2("docs", "slug")
               /\ lastCall.params = SlugList(<<S("a"), S("b")>>)) =>
              lastCall.result.url = S("/docs/a/b")

C1_Witness ==
  /\ EndToEndRun
  /\ lastCall.called
  /\ lastCall.key = Key2("docs", "slug")
  /\ lastCall.params = SlugList(<<S("a"), S("b")>>)
  /\ lastCall.result.url = S("/docs/a/b")

\* the name=value pairs of a query suffix: what stands between the '&'s
\* after its first character
SuffixPairs(suffix) == split(Tail(suffix), "&")

PairName(pair) == SubSeq(pair, 1, IndexFrom(pair, "=", 1) - 1)

DeclaredNames(route) ==
  {route.queryParams[k].name : k \in 1..Len(route.queryParams)}

\* empty, or one '?' followed by pairs 'name=value' of declared names, joined
\* by single '&'
WellFormedSuffix(suffix, names) ==
  \/ suffix = <<>>
  \/ /\ suffix[1] = "?"
     /\ Len(suffix) > 1
     /\ suffix[2] # "&"
     /\ suffix[Len(suffix)] # "&"
     /\ indexOf(suffix, S("&&")) = 0
     /\ \A k \in 1..Len(SuffixPairs(suffix)) :
          LET pair == SuffixPairs(suffix)[k]
          IN /\ IndexFrom(pair, "=", 1) >= 2
             /\ PairName(pair) \in names
             /\ IndexFrom(pair, "?", 1) = 0

\* C2: whichever optional fields are absent, the query suffix of a call is
\* empty or a single '?' followed by the name=value pairs joined by single
\* '&': no leading or trailing '&', no '&&', no bare '?'.
C2_NoStraySeparator ==
  (lastCall.called /\ ~lastCall.result.threw) =>
     WellFormedSuffix(lastCall.result.suffix, DeclaredNames(lastCall.route))

\* an absent optional field between two present ones
C2_Witness ==
  /\ lastCall.called
  /\ ~lastCall.result.threw
  /\ Len(lastCall.route.queryParams) = 3
  /\ Get(lastCall.query, lastCall.route.queryParams[1].name) = Str(S("a&b"))
  /\ Get(lastCall.query, lastCall.route.queryParams[2].name) = Undefined
  /\ Truthy(Get(lastCall.query, lastCall.route.queryParams[3].name))
  /\ Len(SuffixPairs(lastCall.result.suffix)) >= 2

SearchQueryParams ==
  <<[name |-> S("q"), type |-> S("string"), optional |-> FALSE],
    [name |-> S("page"), type |-> S("number"), optional |-> TRUE],
    [name |-> S("category"), type |-> S("string[]"), optional |-> TRUE]>>

ReactQuery ==
  Obj((S("q") :> Str(S("react"))) @@ (S("page") :> Num(2))
        @@ (S("category") :> Arr(<<S("tutorial"), S("beginner")>>)))

\* the position of a name in the declaration
DeclIndex(route, name) ==
  CHOOSE k \in 1..Len(route.queryParams) : route.queryParams[k].name = name

PairsNamed(suffix, name) ==
  {k \in 1..Len(SuffixPairs(suffix)) : PairName(SuffixPairs(suffix)[k]) = name}

\* C3: the pairs of the suffix follow the declaration order of the fields, a
\* list-typed field gives one pair per element, and for the contract
\* {q: string; page?: number; category?: string[]} the query {q: 'react',
\* page: 2, category: ['tutorial', 'beginner']} gives
\* '?q=react&page=2&category=tutorial&category=beginner'.
C3_DeclarationOrder ==
  (lastCall.called /\ ~lastCall.result.threw /\ lastCall.result.suffix # <<>>) =>
     LET suffix == lastCall.result.suffix
         pairs == SuffixPairs(suffix)
         route == lastCall.route
     IN /\ \A i, j \in 1..Len(pairs) :
             i < j => DeclIndex(route, PairName(pairs[i]))
                        <= DeclIndex(route, PairName(pairs[j]))
        /\ \A k \in 1..Len(route.queryParams) :
             LET q == route.queryParams[k]
                 x == Get(lastCall.query, q.name)
             IN (q.type = S("string[]") /\ x.t = "array") =>
                  Cardinality(PairsNamed(suffix, q.name)) = Len(x.v)
        /\ (route.queryParams = SearchQueryParams /\ lastCall.query = ReactQuery) =>
             suffix = S("?q=react&page=2&category=tutorial&category=beginner")

C3_Witness ==
  /\ lastCall.called
  /\ lastCall.route.queryParams = SearchQueryParams
  /\ lastCall.query = ReactQuery
  /\ lastCall.result.suffix
       = S("?q=react&page=2&category=tutorial&category=beginner")

AllOptional(specs) == \A k \in 1..Len(specs) : specs[k].optional

\* the canonical path with every catch-all marker replaced by the empty string
RECURSIVE WithoutCatchAllMarkers(_, _)
WithoutCatchAllMarkers(s, i) ==
  IF i > Len(s) THEN <<>>
  ELSE LET e == SpanIn(s, i + 1, NameChars)
       IN IF s[i] = ":" /\ e >= i + 1 /\ e + 1 <= Len(s) /\ s[e + 1] = "*"
          THEN WithoutCatchAllMarkers(s, e + 2)
          ELSE <<s[i]>> \o WithoutCatchAllMarkers(s, i + 1)

\* C4: a callable of a route whose params are all optional, called with no
\* argument at all, returns the canonical path with every catch-all marker
\* replaced by the empty string.
C4_ZeroArguments ==
  (/\ lastCall.called
   /\ lastCall.route.params # <<>>
   /\ AllOptional(lastCall.route.params)
   /\ lastCall.params = Undefined
   /\ lastCall.query = Undefined) =>
     /\ ~lastCall.result.threw
     /\ lastCall.result.url = WithoutCatchAllMarkers(lastCall.route.routePath, 1)

\* C5: a scalar-typed query field gives its pair exactly when its value is
\* not undefined: 0, false and the empty string give a pair too.
C5_DefinedScalarGivesPair ==
  (lastCall.called /\ ~lastCall.result.threw) =>
     \A k \in 1..Len(lastCall.route.queryParams) :
        LET q == lastCall.route.queryParams[k]
        IN ~endsWith(q.type, S("[]")) =>
             (Get(lastCall.query, q.name) # Undefined
                <=> /\ lastCall.result.suffix # <<>>
                    /\ PairsNamed(lastCall.result.suffix, q.name) # {})

\* C6: when every declared query field is optional, a call without the query
\* argument returns the path with no query string and raises no error.
C6_OptionalQueryArgument ==
  (/\ lastCall.called
   /\ lastCall.route.queryParams # <<>>
   /\ AllOptional(lastCall.route.queryParams)
   /\ lastCall.query = Undefined
   /\ lastCall.params # Undefined \/ lastCall.route.params = <<>>) =>
     /\ ~lastCall.result.threw
     /\ lastCall.result.suffix = <<>>

\* the markers of a path: a ':' followed by a name character
MarkerStarts(s) ==
  {i \in 1..Len(s) : s[i] = ":" /\ i + 1 <= Len(s) /\ s[i + 1] \in NameChars}

\* the k-th marker start, from the left
NthMarker(s, k) ==
  CHOOSE i \in MarkerStarts(s) :
    Cardinality({j \in MarkerStarts(s) : j < i}) = k - 1

MarkerName(s, i) == SubSeq(s, i + 1, SpanIn(s, i + 1, NameChars))

MarkerHasStar(s, i) ==
  LET e == SpanIn(s, i + 1, NameChars) IN e + 1 <= Len(s) /\ s[e + 1] = "*"

\* C7: every marker of the canonical path gives one ParamSpec: ':name' a
\* scalar one with optional = false, ':name*' a list-valued catch-all with
\* optional = true.
C7_MarkerToParamSpec ==
  \A r \in Discovered :
     /\ Len(r.params) = Cardinality(MarkerStarts(r.routePath))
     /\ \A k \in 1..Len(r.params) :
          LET i == NthMarker(r.routePath, k)
              p == r.params[k]
          IN /\ p.name = MarkerName(r.routePath, i)
             /\ MarkerHasStar(r.routePath, i) =>
                  p.optional /\ p.catchAll /\ p.type = S("string[]")
             /\ ~MarkerHasStar(r.routePath, i) =>
                  ~p.optional /\ ~p.catchAll /\ p.type = S("string")

\* a route with a scalar marker and a catch-all marker
C7_Witness ==
  \E r \in Discovered :
     /\ r.routePath = S("/:id/:slug*")
     /\ Len(r.params) = 2
     /\ ~r.params[1].optional
     /\ r.params[2].optional /\ r.params[2].catchAll

\* C8: the ParamSpec names of a route entry are pairwise distinct and in the
\* left-to-right order of their markers.
C8_DistinctOrderedNames ==
  \A r \in Discovered :
     /\ \A i, j \in 1..Len(r.params) : i # j => r.params[i].name # r.params[j].name
     /\ Len(r.params) = Cardinality(MarkerStarts(r.routePath))
     /\ \A k \in 1..Len(r.params) :
          r.params[k].name = MarkerName(r.routePath, NthMarker(r.routePath, k))

\* C9: the canonical route path begins with exactly one '/'.
C9_SingleLeadingSlash ==
  \A r \in Discovered :
     /\ Len(r.routePath) >= 1
     /\ r.routePath[1] = "/"
     /\ Len(r.routePath) >= 2 => r.routePath[2] # "/"

\* C10: under each of the five dialects 'index.ext' gives '/' and
\* 'blog/index.ext' gives '/blog'.
C10_IndexCollapse ==
  \A r \in Discovered : \A e \in Extensions :
     /\ r.filePath = S("index") \o e => r.routePath = S("/")
     /\ r.filePath = S("blog/index") \o e => r.routePath = S("/blog")

C10_Witness ==
  /\ config.framework = "remix"
  /\ \E r \in Discovered :
        r.filePath = S("blog/index.jsx") /\ r.routePath = S("/blog")

\* the key path an entry is filed under
KeyOf(route) == split(routeName(route.routePath), "/")

SameName(i, j) == KeyOf(discoveredRoutes[i]) = KeyOf(discoveredRoutes[j])

\* the entries whose dotted name another entry has too
Colliding ==
  {i \in 1..Len(discoveredRoutes) :
     \E j \in 1..Len(discoveredRoutes) : j # i /\ SameName(i, j)}

LastOfName(i) ==
  CHOOSE j \in 1..Len(discoveredRoutes) :
     /\ SameName(i, j)
     /\ \A k \in 1..Len(discoveredRoutes) : SameName(i, k) => k <= j

\* C11: when two or more entries have the same dotted name, then after the
\* whole list is folded the terminal under that name is the callable of the
\* last of them in input order.
C11_LastEntryWins ==
  pc = "generated" =>
    \A i \in Colliding :
       /\ KeyOf(discoveredRoutes[i]) \in DOMAIN output.routes
       /\ output.routes[KeyOf(discoveredRoutes[i])] =
            CallableNode(discoveredRoutes[LastOfName(i)])

\* the same, for the runs in which no entry is named as a directory that
\* holds other entries
LastEntryWinsApart ==
  (pc = "generated"
     /\ \A i, j \in 1..Len(discoveredRoutes) :
           IsPrefix(KeyOf(discoveredRoutes[i]), KeyOf(discoveredRoutes[j]))
             => SameName(i, j)) =>
    \A i \in Colliding :
       /\ KeyOf(discoveredRoutes[i]) \in DOMAIN output.routes
       /\ output.routes[KeyOf(discoveredRoutes[i])] =
            CallableNode(discoveredRoutes[LastOfName(i)])

globExcluded(path) ==
  \E k \in 1..Len(config.excludePatterns) :
     globMatches(config.excludePatterns[k], path)

RelativePath(v) == config.input \o S("/") \o v

\* the paths the walk tests: the files and directories below the input
\* directory that it reaches
Candidates ==
  UNION {{v \in Visited(fsFiles[i].path) :
            \A u \in Visited(fsFiles[i].path) :
               Len(u) < Len(v) =>
                 ~shouldExclude(config.excludePatterns, RelativePath(u))} :
         i \in 1..Len(fsFiles)}

\* C12: a candidate path is excluded exactly when some exclusion pattern,
\* with '**' read as any substring and '*' as any substring without a
\* separator, matches somewhere inside its path relative to the working
\* directory.
C12_ExcludedExactlyWhenGlobMatches ==
  pc # "start" =>
    \A v \in Candidates :
       shouldExclude(config.excludePatterns, RelativePath(v))
         <=> globExcluded(RelativePath(v))

Yielded == {allRouteFiles[i] : i \in 1..Len(allRouteFiles)}

\* C13: no file at or below a path that an exclusion pattern matches is in
\* the walker's result, for patterns with '**' and for patterns with a
\* single-segment '*'.
C13_NothingBelowExcludedPath ==
  pc # "start" =>
    \A f \in Yielded : \A v \in Visited(f.path) : ~globExcluded(RelativePath(v))

\* the same, with a path taken to match when the walker's own test says so
NothingBelowPathTheWalkerExcludes ==
  pc # "start" =>
    \A f \in Yielded : \A v \in Visited(f.path) :
       ~shouldExclude(config.excludePatterns, RelativePath(v))

IsRoleFile(name, roles) == \E r \in roles, e \in Extensions : name = r \o e

\* C14: under the App Router dialect the walker yields only files named
\* page or layout: loading, error, not-found and template files and files
\* without a role name are not yielded.
C14_OnlyRoutableRoles ==
  (config.framework = "nextjs-app" /\ pc # "start") =>
    \A f \in Yielded : IsRoleFile(baseName(f.path), {S("page"), S("layout")})

\* the part of it about the boundary files
BoundaryFilesNotYielded ==
  pc # "start" =>
    \A f \in Yielded :
       ~IsRoleFile(baseName(f.path),
                   {S("loading"), S("error"), S("not-found"), S("template")})

RestParam ==
  [name |-> S("rest"), type |-> S("string[]"), optional |-> TRUE, catchAll |-> TRUE]

\* C15: under the astro and sveltekit dialects the rest segment '[...rest]'
\* is rewritten to the catch-all marker ':rest*' and gives one optional
\* list-valued ParamSpec called rest.
C15_RestSegment ==
  config.framework \in {"astro", "sveltekit"} =>
    \A r \in Discovered : \A e \in Extensions :
       /\ r.filePath = S("[...rest]") \o e =>
            r.routePath = S("/:rest*") /\ r.params = <<RestParam>>
       /\ r.filePath = S("blog/[...rest]") \o e =>
            r.routePath = S("/blog/:rest*") /\ r.params = <<RestParam>>

TreeIs(tree) == {fsFiles[i] : i \in 1..Len(fsFiles)} = tree

\* the callable at key is the one written for the file at path
CallableFor(key, path) ==
  /\ key \in Callables
  /\ output.routes[key].route.filePath = S(path)

SlugParam ==
  [name |-> S("slug"), type |-> S("string"), optional |-> FALSE, catchAll |-> FALSE]

\* C16: under the Pages Router dialect a directory with blog/index.tsx and
\* blog/[slug].tsx gives, in either discovery order, the callable
\* Routes.blog.index for the index file and the callable Routes.blog.slug,
\* taking the param slug, for the dynamic file.
C16_IndexAndDynamicSibling ==
  (/\ config.framework = "nextjs"
   /\ TreeIs(PagesBlogTree)
   /\ pc \in {"generated", "crashed"}) =>
     /\ pc = "generated"
     /\ CallableFor(Key2("blog", "index"), "blog/index.tsx")
     /\ CallableFor(Key2("blog", "slug"), "blog/[slug].tsx")
     /\ output.routes[Key2("blog", "slug")].route.params = <<SlugParam>>

\* what the two discovery orders give instead: the index file first, the run
\* stops in the builder; the dynamic file first, its callable is replaced
IndexAndDynamicSiblingOutcome ==
  (/\ config.framework = "nextjs"
   /\ TreeIs(PagesBlogTree)
   /\ pc \in {"generated", "crashed"}) =>
     IF fsFiles[1].path = S("blog/index.tsx")
     THEN pc = "crashed"
     ELSE /\ pc = "generated"
          /\ Callables = {Key1("blog")}
          /\ CallableFor(Key1("blog"), "blog/index.tsx")

RoutePathOf(path) ==
  {r.routePath : r \in {d \in Discovered : d.filePath = S(path)}}

\* C17: under the nextjs-app dialect the role suffix is stripped from every
\* page file: 'page.tsx' directly under the input directory gives '/' and
\* the callable home, 'about/page.tsx' gives '/about' and
\* '(dashboard)/analytics/page.tsx' gives '/analytics'.
C17_RoleSuffixStripped ==
  (config.framework = "nextjs-app" /\ TreeIs(AppRouterTree)) =>
     /\ RoutePathOf("page.tsx") \subseteq {S("/")}
     /\ RoutePathOf("about/page.tsx") \subseteq {S("/about")}
     /\ RoutePathOf("(dashboard)/analytics/page.tsx") \subseteq {S("/analytics")}
     /\ pc = "generated" => CallableFor(Key1("home"), "page.tsx")

\* the part of it about the page files below a directory
NestedRoleSuffixStripped ==
  (config.framework = "nextjs-app" /\ TreeIs(AppRouterTree)) =>
     /\ RoutePathOf("about/page.tsx") \subseteq {S("/about")}
     /\ RoutePathOf("(dashboard)/analytics/page.tsx") \subseteq {S("/analytics")}
     /\ RoutePathOf("page.tsx") \subseteq {S("/page")}
     /\ pc = "generated" => CallableFor(Key1("page"), "page.tsx")

\* C18: under the remix dialect the flat-route file 'blog.$slug.tsx' gives a
\* callable nested at Routes.blog.slug that takes the required scalar param
\* slug, and '_index.tsx' gives Routes.home.
C18_FlatRoutes ==
  (config.framework = "remix" /\ TreeIs(FlatTree) /\ pc = "generated") =>
     /\ CallableFor(Key2("blog", "slug"), "blog.$slug.tsx")
     /\ output.routes[Key2("blog", "slug")].route.params = <<SlugParam>>
     /\ CallableFor(Key1("home"), "_index.tsx")

\* what the run gives instead: one key 'blog.slug' at the top of the
\* structure, and no entry for '_index.tsx', which the default patterns
\* exclude
FlatRoutesOutcome ==
  (config.framework = "remix" /\ TreeIs(FlatTree) /\ pc = "generated") =>
     /\ Callables = {Key1("blog.slug"), Key1("about")}
     /\ CallableFor(Key1("blog.slug"), "blog.$slug.tsx")
     /\ output.routes[Key1("blog.slug")].route.params = <<SlugParam>>
     /\ RoutePathOf("_index.tsx") = {}

\* C19: under the astro dialect the files with the extension '.astro' are
\* discovered: index.astro gives Routes.home, about.astro gives Routes.about
\* and blog/[slug].astro gives Routes.blog.slug taking the param slug.
C19_AstroFilesDiscovered ==
  (config.framework = "astro" /\ TreeIs(AstroTree) /\ pc = "generated") =>
     /\ CallableFor(Key1("home"), "index.astro")
     /\ CallableFor(Key1("about"), "about.astro")
     /\ CallableFor(Key2("blog", "slug"), "blog/[slug].astro")
     /\ output.routes[Key2("blog", "slug")].route.params = <<SlugParam>>

\* what the run gives instead: the walker yields none of the files
AstroFilesOutcome ==
  (TreeIs(AstroTree) /\ pc # "start") =>
     allRouteFiles = <<>> /\ output.routes = EmptyStructure

\* the field a declaration declares
DeclSpec(decl) ==
  CASE decl = S("q: string") ->
         [name |-> S("q"), type |-> S("string"), optional |-> FALSE]
    [] decl = S("q?: string") ->
         [name |-> S("q"), type |-> S("string"), optional |-> TRUE]
    [] decl = S("page?: number") ->
         [name |-> S("page"), type |-> S("number"), optional |-> TRUE]
    [] decl = S("category?: string[]") ->
         [name |-> S("category"), type |-> S("string[]"), optional |-> TRUE]
    [] decl = S("exact?: boolean") ->
         [name |-> S("exact"), type |-> S("boolean"), optional |-> TRUE]

DeclSpecs(decls) == [k \in 1..Len(decls) |-> DeclSpec(decls[k])]

\* the entries of the files whose contract is decls, with the trailing
\* comments at the lines commented says
ExtractedAs(decls, commented) ==
  \A r \in Discovered :
     fsFiles[1].content = CommentedText(decls, commented) =>
       r.queryParams = DeclSpecs(decls)

\* C20: for a QueryParams block in which every field line is followed, after
\* its semicolon, by a trailing '//' comment, as in the README example with
\* q, page? and category?, the extractor returns every declared field, in
\* declaration order, with its name, type and optionality.
C20_CommentedFieldsExtracted ==
  /\ \A r \in Discovered :
        fsFiles[1].content = S(ReadmeContract) => r.queryParams = SearchQueryParams
  /\ \A decls \in Contracts :
        ExtractedAs(decls, [k \in 1..Len(decls) |-> TRUE])

\* the same for the blocks in which no field line but the last has a
\* trailing comment
FieldsBeforeCommentsExtracted ==
  \A decls \in Contracts : \A last \in BOOLEAN :
     ExtractedAs(decls, [k \in 1..Len(decls) |-> last /\ k = Len(decls)])

\* what the extractor returns for the README example
ReadmeOutcome ==
  \A r \in Discovered :
     fsFiles[1].content = S(ReadmeContract) =>
       r.queryParams = <<SearchQueryParams[1]>>

HasLogged(kind) == \E e \in proc.log : e.kind = kind

RunOver == pc \in {"generated", "returned", "crashed"}

\* C21: when the input directory does not exist the run logs the error,
\* finds zero routes and completes by writing an output file without routes.
C21_MissingInputGivesEmptyOutput ==
  (~disk.exists /\ RunOver) =>
     /\ HasLogged("input-missing")
     /\ allRouteFiles = <<>>
     /\ output.written
     /\ output.routes = EmptyStructure

\* what the run does instead: it logs and returns, and writes no file
MissingInputOutcome ==
  (~disk.exists /\ pc # "start") =>
     /\ pc = "returned"
     /\ HasLogged("input-missing")
     /\ ~output.written
     /\ proc.status = "exit0"

\* the write was tried and refused
WriteFailed == disk.exists /\ ~disk.writable /\ pc = "returned"

\* C22: when writing the output file fails the failure is reported with its
\* cause and the process ends with a non-zero exit status.
C22_WriteFailureIsFatal ==
  WriteFailed =>
     /\ HasLogged("write-error")
     /\ HasLogged("write-reason")
     /\ proc.status = "exit1"

\* what the run does instead: the failure is reported and the process ends
\* with status 0
WriteFailureOutcome ==
  WriteFailed =>
     /\ HasLogged("write-error")
     /\ HasLogged("write-reason")
     /\ ~output.written
     /\ proc.status = "exit0"

\* the file at path passes the walker's tests and lies below no directory
\* that cannot be opened
Collectable(path) ==
  /\ yields(config.input, config.excludePatterns, path)
  /\ dirsOf(path) \cap disk.unreadable = {}

\* C23: a directory that cannot be opened does not abort the walk: its
\* subtree contributes no file, and every qualifying file outside it, met
\* before or after, is in the result, in the order of the walk.
C23_UnreadableDirectorySkipped ==
  (disk.exists /\ pc # "start") =>
     /\ allRouteFiles = SelectSeq(fsFiles, LAMBDA f : Collectable(f.path))
     /\ \A d \in disk.unreadable :
          (\E f \in Yielded : d \in dirsOf(f.path)) = FALSE

\* blog cannot be opened: the files before and after it are collected, the
\* files below it are not, and the error is logged
C23_Witness ==
  /\ disk.exists
  /\ disk.unreadable = {S("blog")}
  /\ fsFiles[1].path = S("index.tsx")
  /\ fsFiles[Len(fsFiles)].path = S("docs/intro.tsx")
  /\ {f.path : f \in Yielded} = {S("index.tsx"), S("docs/intro.tsx")}
  /\ LogEntry("read-error", S("blog")) \in proc.log
  /\ pc = "generated"

\* the rewriter applied to its own output
rewriteAgain(r) == getRoutePathFromFilePath(r.routePath, config.framework)

ReadAsFilePath(r) ==
  \/ endsWith(r.routePath, S("/index"))
  \/ /\ config.framework = "nextjs-app"
     /\ \/ \E role \in AppRouterRoles : endsWith(r.routePath, role)
        \/ removeRouteGroups(r.routePath, 1) # r.routePath

----------------------------------------------------------------------------
(* The effective configuration *)

\* what the config file says of an option, the default when it says nothing
FromFile(key) ==
  IF cli.file.found /\ cli.file.valid /\ key \in DOMAIN cli.file.json
  THEN cli.file.json[key]
  ELSE defaultConfig[key]

CommandDone == pc # "command"

\* C25: every option of the effective configuration is the flag's value when
\* the flag was given, otherwise the config file's value, otherwise the
\* default; in particular without --framework the dialect is the one the
\* config file sets.
C25_FlagThenFileThenDefault ==
  CommandDone =>
    /\ config.input =
         IF cli.argv.input # <<>> THEN cli.argv.input ELSE FromFile("input")
    /\ config.framework =
         IF cli.argv.framework # "none" THEN cli.argv.framework
         ELSE FromFile("framework")
    /\ config.includeQueryParams =
         IF cli.argv.noQueryParams THEN FALSE ELSE FromFile("includeQueryParams")
    /\ config.excludePatterns = FromFile("excludePatterns")

\* what the commands do: the other options follow the order flag, file,
\* default, and the dialect without --framework is 'nextjs' whatever the
\* config file sets
FrameworkFromFileOverridden ==
  CommandDone =>
    /\ config.input =
         IF cli.argv.input # <<>> THEN cli.argv.input ELSE FromFile("input")
    /\ config.framework =
         IF cli.argv.framework # "none" THEN cli.argv.framework ELSE "nextjs"
    /\ config.includeQueryParams =
         IF cli.argv.noQueryParams THEN FALSE ELSE FromFile("includeQueryParams")
    /\ config.excludePatterns = FromFile("excludePatterns")

----------------------------------------------------------------------------
(* The watcher *)

\* C26: in watch mode at most one run is under way at any moment, a run
\* starts only when no run is under way, and the output file changes only
\* to the complete emission of the run under way.
C26_RunsNeverOverlap ==
  /\ [](InWatchMode => watcher.active <= 1)
  /\ [][(InWatchMode /\ pc' = "start" /\ pc # "start") => watcher.active = 0]_vars
  /\ [][(InWatchMode /\ output' # output) =>
          /\ watcher.active = 1
          /\ Len(discoveredRoutes) = Len(allRouteFiles)
          /\ output' = [written |-> TRUE,
                        routes |-> buildStructure(EmptyStructure, discoveredRoutes).rs]]_vars

\* a run is under way while an event that arrived after its start waits
C26_Witness ==
  /\ InWatchMode
  /\ pc = "discover"
  /\ watcher.active = 1
  /\ watcher.changes > 0
  /\ watcher.events # <<>>
  /\ output.written

\* the emission of a run that starts from nothing over a tree
FreshRun(files) ==
  LET all == getAllFilePaths(config.input, config.excludePatterns,
                             readdir(files, disk.unreadable))
  IN buildStructure(EmptyStructure, [i \in 1..Len(all) |-> routeEntry(all[i])])

AllHandled == InWatchMode /\ pc = "watching" /\ watcher.events = <<>>

\* C27: every event taken from the queue starts a run that begins with no
\* route, and once every event has been handled, the input directory being
\* there and the write succeeding, the output file is the emission of a
\* fresh run over the tree as it stands.
C27_OutputIsFreshRun ==
  /\ [][Len(watcher'.events) < Len(watcher.events) =>
          pc' = "start" /\ watcher'.active = watcher.active + 1]_vars
  /\ [][(InWatchMode /\ pc = "start" /\ pc' = "discover") => discoveredRoutes' = <<>>]_vars
  /\ []((AllHandled /\ disk.exists /\ disk.writable) =>
          output = [written |-> TRUE, routes |-> FreshRun(fsFiles).rs])

\* every event is handled after a file was removed and another changed
C27_Witness ==
  /\ AllHandled
  /\ watcher.changes >= 2
  /\ PathsOf(fsFiles) = {S("about.tsx")}
  /\ readFileSync(S("about.tsx")) = {QContract}
  /\ output = [written |-> TRUE, routes |-> FreshRun(fsFiles).rs]
  /\ <<S("about")>> \in DOMAIN output.routes
  /\ <<S("home")>> \notin DOMAIN output.routes

----------------------------------------------------------------------------
(* The role filter and the dialect *)

NotExcluded(path) ==
  \A v \in Visited(path) :
     ~shouldExclude(config.excludePatterns, RelativePath(v))

\* C28: under nextjs, remix, astro and sveltekit the walker yields every
\* file that is not excluded and has a recognized extension, whatever its
\* name, loading, error, not-found, template and global-error included.
C28_RoleFilterOnlyUnderAppRouter ==
  (config.framework \in {"nextjs", "remix", "astro", "sveltekit"} /\ pc # "start") =>
    \A i \in 1..Len(fsFiles) :
       (NotExcluded(fsFiles[i].path) /\ hasRouteExtension(baseName(fsFiles[i].path)))
         => fsFiles[i] \in Yielded

\* what the walker does: the same files are yielded under every dialect
YieldedWhateverTheDialect ==
  pc # "start" =>
    \A i \in 1..Len(fsFiles) :
       fsFiles[i] \in Yielded <=>
         /\ NotExcluded(fsFiles[i].path)
         /\ hasRouteExtension(baseName(fsFiles[i].path))
         /\ ~IsRoleFile(baseName(fsFiles[i].path),
                        {S("loading"), S("error"), S("not-found"), S("template"),
                         S("global-error")})

----------------------------------------------------------------------------
(* The names validateRoutes and the test file derive *)

\* .replace(/:/g, '')
dropColons(s) == SelectSeq(s, LAMBDA c : c # ":")

\* .replace(/\//g, '.')
dotted(s) == [i \in 1..Len(s) |-> IF s[i] = "/" THEN "." ELSE s[i]]

\* the name under which the emitter places the callable, written with dots
emittedName(routePath) == dotted(routeName(routePath))

\* generateTestFile: routeName, then testName
testName(routePath) ==
  LET name == IF routePath = S("/") THEN S("home")
              ELSE replaceMarkers(
                     IF startsWith(routePath, S("/")) THEN Tail(routePath)
                     ELSE routePath, 1)
  IN dotted(name)

\* validateRoutes: routeName
validatedName(routePath) ==
  IF routePath = S("/") THEN S("home")
  ELSE dotted(dropColons(
         IF startsWith(routePath, S("/")) THEN Tail(routePath) ELSE routePath))

\* match[1] of /Routes\.([a-zA-Z0-9_.]+)(\([^)]*\))?/g on 'Routes.' followed
\* by a name and '(': the longest run of name characters and dots, nothing
\* when the run is empty (no match)
usageOf(name) == SubSeq(name, 1, SpanIn(name, 1, NameChars \cup {"."}))

\* routeExists
routeExists(routes, usage) ==
  \E i \in 1..Len(routes) :
     LET name == validatedName(routes[i].routePath)
     IN name = usage \/ startsWith(usage, name \o S("."))

\* C29: for every discovered route the name validateRoutes derives, and the
\* name the test file derives, is the emitter's dotted name, and the usage
\* 'Routes.<emitted name>' is found to exist.
C29_ValidatedNameIsEmittedName ==
  \A r \in Discovered :
     /\ validatedName(r.routePath) = emittedName(r.routePath)
     /\ testName(r.routePath) = emittedName(r.routePath)
     /\ usageOf(emittedName(r.routePath)) # <<>> =>
          routeExists(discoveredRoutes, usageOf(emittedName(r.routePath)))

\* every ':' of the path opens a marker, and no marker has a star
PlainMarkers(s) ==
  \A i \in 1..Len(s) :
     /\ s[i] = ":" => (i < Len(s) /\ s[i + 1] \in NameChars)
     /\ s[i] # "*"

\* what the two derivations do: the test file's name is the emitter's for
\* every route, and validateRoutes' name is the emitter's for every route
\* whose markers are plain
NamesAgreeButCatchAll ==
  \A r \in Discovered :
     /\ testName(r.routePath) = emittedName(r.routePath)
     /\ PlainMarkers(r.routePath) =>
          validatedName(r.routePath) = emittedName(r.routePath)

\* the catch-all route of blog/[[...slug]].tsx
CatchAllReportedMissing ==
  \A r \in Discovered :
     r.routePath = S("/blog/:slug*") =>
       /\ emittedName(r.routePath) = S("blog.slug")
       /\ validatedName(r.routePath) = S("blog.slug*")
       /\ usageOf(S("blog.slug")) = S("blog.slug")
       /\ ~routeExists(discoveredRoutes, S("blog.slug"))

CatchAllDiscovered == \E r \in Discovered : r.routePath = S("/blog/:slug*")

----------------------------------------------------------------------------
(* Names and canonical paths *)

\* C30: two discovered routes with different canonical paths never derive
\* the same name, and only the root path derives 'home'.
C30_NameDerivationInjective ==
  /\ \A i, j \in 1..Len(discoveredRoutes) :
        discoveredRoutes[i].routePath # discoveredRoutes[j].routePath =>
          routeName(discoveredRoutes[i].routePath)
            # routeName(discoveredRoutes[j].routePath)
  /\ \A r \in Discovered :
        routeName(r.routePath) = S("home") => r.routePath = S("/")

\* what the derivation does with a marker and the static segment of the same
\* name, and with the root and the static path '/home'
MarkerAndStaticShareName ==
  /\ routeName(S("/blog/:slug")) = routeName(S("/blog/slug"))
  /\ routeName(S("/home")) = routeName(S("/"))
  /\ \A i, j \in 1..Len(discoveredRoutes) :
        (/\ discoveredRoutes[i].routePath = S("/blog/:slug")
         /\ discoveredRoutes[j].routePath = S("/blog/slug")) =>
          KeyOf(discoveredRoutes[i]) = KeyOf(discoveredRoutes[j])

====
